---- MODULE Spec2Model ----
(***************************************************************************)
(* Model of badcrossbar's compute() entry point, the input validation of   *)
(* check.crossbar_requirements and the assembly of the matrices g and i    *)
(* of the equation gv = i (computing/fill.py).                             *)
(*                                                                         *)
(* Numbers are extended rationals <<num, den>> in lowest terms with        *)
(* den >= 0: <<k, 1>> is the integer k, <<1, 0>> is +inf, <<-1, 0>> is     *)
(* -inf and <<0, 0>> is nan.  Python's None is the empty tuple.  Floating  *)
(* point rounding is not modelled: a quotient is the exact quotient.       *)
(* An array is a record [ndim, numeric, data]; the data of a 2-D array is  *)
(* a sequence of rows, each row a sequence of numbers.                     *)
(***************************************************************************)
EXTENDS Integers, Sequences, FiniteSets, TLC

VARIABLES
    arg_resistances,        \* the caller's `resistances` object
    arg_applied_voltages,   \* the caller's `applied_voltages` object
    arg_r_i,                \* compute(..., r_i=...)
    arg_r_i_word_line,      \* compute(..., r_i_word_line=...)
    arg_r_i_bit_line,       \* compute(..., r_i_bit_line=...)
    r_i_word_line,          \* local of compute() after lines 59-60
    r_i_bit_line,           \* local of compute() after lines 59-60
    resistances,            \* local of compute(): array returned by the check
    applied_voltages,       \* local of compute(): array returned by the check
    pc,                     \* position inside compute()
    err,                    \* the exception that aborted the call, or NoError
    g_matrix,               \* shape of the matrix returned by fill.g
    i_matrix,               \* matrix returned by fill.i
    prev                    \* outcome of the previous call with these inputs

vars == <<arg_resistances, arg_applied_voltages, arg_r_i, arg_r_i_word_line,
          arg_r_i_bit_line, r_i_word_line, r_i_bit_line, resistances,
          applied_voltages, pc, err, g_matrix, i_matrix, prev>>

---------------------------------------------------------------------------
(* Bounds of the model.                                                    *)

\* largest number of elements of an array handed to compute()
MaxSize == 3
\* largest number of word lines handed directly to fill.g / fill.i
MaxM == 2
\* largest number of bit lines handed directly to fill.g / fill.i
MaxN == 2
\* largest number of examples handed directly to fill.g / fill.i
MaxP == 2

---------------------------------------------------------------------------
(* Numbers.                                                                *)

None == << >>

Abs(k) == IF k < 0 THEN -k ELSE k

Sign(k) == IF k < 0 THEN -1 ELSE IF k > 0 THEN 1 ELSE 0

RECURSIVE Gcd(_, _)
Gcd(a, b) == IF b = 0 THEN a ELSE Gcd(b, a % b)

\* the number num/den in canonical form
Norm(num, den) ==
    IF den = 0 THEN <<Sign(num), 0>>
    ELSE LET s == IF den < 0 THEN -1 ELSE 1
             d == Gcd(Abs(num), Abs(den))
         IN  <<(s * num) \div d, (s * den) \div d>>

Num(k) == <<k, 1>>

Inf == <<1, 0>>

\* x / y of Python floats and numpy arrays' elements (x/0 is +-inf or nan)
Div(x, y) == Norm(x[1] * y[2], x[2] * y[1])

\* x < 0, x > 0, x == 0 (all three are False of nan)
IsNegative(x) == x[1] < 0

IsPositive(x) == x[1] > 0

IsZero(x) == x[1] = 0 /\ x[2] > 0

---------------------------------------------------------------------------
(* numpy arrays.                                                           *)

Array2D(rows) == [ndim |-> 2, numeric |-> TRUE, data |-> rows]

\* array.shape of a 2-D array
shape(array) ==
    <<Len(array.data), IF Len(array.data) = 0 THEN 0 ELSE Len(array.data[1])>>

\* array.size
size(array) ==
    IF array.ndim = 1 THEN Len(array.data)
    ELSE shape(array)[1] * shape(array)[2]

\* the elements of a 2-D array
Elements(array) ==
    {array.data[a][b] : a \in 1..shape(array)[1], b \in 1..shape(array)[2]}

\* np.array(x): a new array holding the contents of x
np_array(x) == x

---------------------------------------------------------------------------
(* Exceptions.                                                             *)

NoError == [type |-> "", raised_by |-> "", name |-> "", text |-> ""]

Error(type, raised_by, name, text) ==
    [type |-> type, raised_by |-> raised_by, name |-> name, text |-> text]

---------------------------------------------------------------------------
(* check.py: each check is NoError when it passes and the exception it     *)
(* raises otherwise.                                                       *)

n_dimensional(array, n_list, name) ==
    IF array.ndim \notin n_list
    THEN Error("TypeError", "n_dimensional", name, "wrong number of dimensions")
    ELSE NoError

numeric_array(array, name) ==
    IF array.numeric = FALSE
    THEN Error("TypeError", "numeric_array", name, "should only contain numbers")
    ELSE NoError

non_empty(array, name) ==
    IF size(array) = 0
    THEN Error("ValueError", "non_empty", name, "array is empty")
    ELSE NoError

\* match_shape comparing the other dimension of every array
match_shape_other_dimension(kwargs) ==
    LET dim == shape(kwargs[1].array)[2 - kwargs[1].dim]
        bad == {a \in 1..Len(kwargs) :
                    shape(kwargs[a].array)[2 - kwargs[a].dim] # dim}
    IN  IF bad # {}
        THEN Error("ValueError", "match_shape",
                   kwargs[CHOOSE a \in bad : \A b \in bad : a <= b].key,
                   "dimension should match")
        ELSE NoError

\* kwargs is the sequence of the keyword arguments [key, array, dim]
match_shape(kwargs) ==
    LET first_key == kwargs[1].key
        first_value == kwargs[1]
        dim == shape(first_value.array)[first_value.dim + 1]
        bad == {a \in 1..Len(kwargs) :
                    shape(kwargs[a].array)[kwargs[a].dim + 1] # dim}
    IN  IF bad # {}
        THEN Error("ValueError", "match_shape",
                   kwargs[CHOOSE a \in bad : \A b \in bad : a <= b].key,
                   "dimension should match")
        ELSE NoError

\* non_negative_array with .all() in place of .any()
non_negative_array_all(array, name) ==
    IF \A x \in Elements(array) : IsNegative(x)
    THEN Error("ValueError", "non_negative_array", name,
               "contains at least one negative value")
    ELSE NoError

non_negative_array(array, name) ==
    IF \E x \in Elements(array) : IsNegative(x)
    THEN Error("ValueError", "non_negative_array", name,
               "contains at least one negative value")
    ELSE NoError

non_infinite_array(array, name) ==
    IF (\E x \in Elements(array) : x = Inf)
           \/ (\E x \in Elements(array) : x = <<-1, 0>>)
    THEN Error("ValueError", "non_infinite_array", name,
               "contains at least one value with infinite magnitude")
    ELSE NoError

number(value, name) ==
    IF value = None
    THEN Error("TypeError", "number", name, "type is not supported")
    ELSE NoError

non_negative_number(value, name) ==
    IF IsNegative(value)
    THEN Error("ValueError", "non_negative_number", name, "is negative")
    ELSE NoError

\* short_circuit that lets a zero resistance pass unless it is a short
short_circuit_only(resistances_, r_i_word_line_, r_i_bit_line_) ==
    IF (\E x \in Elements(resistances_) : IsZero(x))
           /\ r_i_word_line_ = r_i_bit_line_ /\ r_i_bit_line_ = Num(0)
    THEN Error("ValueError", "short_circuit", "resistances",
               "zero resistance causing short circuit")
    ELSE NoError

\* short_circuit that reports a short as soon as one line is ideal
short_circuit_either(resistances_, r_i_word_line_, r_i_bit_line_) ==
    IF \E x \in Elements(resistances_) : IsZero(x)
    THEN IF r_i_word_line_ = Num(0) \/ r_i_bit_line_ = Num(0)
         THEN Error("ValueError", "short_circuit", "resistances",
                    "zero resistance causing short circuit")
         ELSE Error("ValueError", "short_circuit", "resistances",
                    "zero resistance is not currently supported")
    ELSE NoError

short_circuit(resistances_, r_i_word_line_, r_i_bit_line_) ==
    IF \E x \in Elements(resistances_) : IsZero(x)
    THEN IF r_i_word_line_ = r_i_bit_line_ /\ r_i_bit_line_ = Num(0)
         THEN Error("ValueError", "short_circuit", "resistances",
                    "zero resistance causing short circuit")
         ELSE Error("ValueError", "short_circuit", "resistances",
                    "zero resistance is not currently supported")
    ELSE NoError

\* the body of the first loop of crossbar_requirements
array_checks(value, name) ==
    LET e1 == n_dimensional(value, {2}, name)
        e2 == numeric_array(value, name)
        e3 == non_empty(value, name)
    IN  IF e1 # NoError THEN e1 ELSE IF e2 # NoError THEN e2 ELSE e3

\* the body of the second loop of crossbar_requirements
number_checks(value, name, r_i_word_line_, r_i_bit_line_) ==
    LET name_ == IF r_i_word_line_ = r_i_bit_line_ THEN "r_i" ELSE name
        e1 == number(value, name_)
        e2 == non_negative_number(value, name_)
    IN  IF e1 # NoError THEN e1 ELSE e2

\* The outcome of check.crossbar_requirements: the exception raised (or
\* NoError), the pair of arrays returned, and the contents of the two
\* array arguments when the call ends.
crossbar_requirements(resistances_, applied_voltages_, r_i_word_line_, r_i_bit_line_) ==
    LET res == np_array(resistances_)
        volt == np_array(applied_voltages_)
        e1 == array_checks(res, "resistances")
        e2 == array_checks(volt, "applied_voltages")
        e3 == non_negative_array(res, "resistances")
        e4 == match_shape(<<[key |-> "resistances", array |-> res, dim |-> 0],
                            [key |-> "applied_voltages", array |-> volt,
                             dim |-> 0]>>)
        e5 == number_checks(r_i_word_line_, "r_i_word_line",
                            r_i_word_line_, r_i_bit_line_)
        e6 == number_checks(r_i_bit_line_, "r_i_bit_line",
                            r_i_word_line_, r_i_bit_line_)
        e7 == short_circuit(res, r_i_word_line_, r_i_bit_line_)
        e == IF e1 # NoError THEN e1 ELSE IF e2 # NoError THEN e2
             ELSE IF e3 # NoError THEN e3 ELSE IF e4 # NoError THEN e4
             ELSE IF e5 # NoError THEN e5 ELSE IF e6 # NoError THEN e6
             ELSE e7
    IN  [err |-> e,
         resistances |-> IF e = NoError THEN res ELSE None,
         applied_voltages |-> IF e = NoError THEN volt ELSE None,
         arg_resistances |-> resistances_,
         arg_applied_voltages |-> applied_voltages_]

---------------------------------------------------------------------------
(* compute.py                                                              *)

\* `if r_i:` in place of `if r_i is not None:`
interconnect_truthy(r_i, r_i_word_line_, r_i_bit_line_) ==
    IF r_i # None /\ ~IsZero(r_i)
    THEN [word_line |-> r_i, bit_line |-> r_i]
    ELSE [word_line |-> r_i_word_line_, bit_line |-> r_i_bit_line_]

\* lines 59-60 of compute(): the pair (r_i_word_line, r_i_bit_line) used
\* from there on
interconnect(r_i, r_i_word_line_, r_i_bit_line_) ==
    IF r_i # None
    THEN [word_line |-> r_i, bit_line |-> r_i]
    ELSE [word_line |-> r_i_word_line_, bit_line |-> r_i_bit_line_]

---------------------------------------------------------------------------
(* numpy operations used by computing/fill.py, on matrices held as         *)
(* sequences of rows.                                                      *)

\* np.zeros((rows, cols))
np_zeros(rows, cols) == [a \in 1..rows |-> [b \in 1..cols |-> Num(0)]]

\* matrix / y for a scalar y
divide_by_scalar(matrix, y) ==
    [a \in 1..Len(matrix) |->
        [b \in 1..Len(matrix[a]) |-> Div(matrix[a][b], y)]]

\* np.tile(matrix, (repeats, 1)) in place of np.repeat(.., axis=0)
np_tile_rows(matrix, repeats) ==
    [a \in 1..(Len(matrix) * repeats) |-> matrix[((a - 1) % Len(matrix)) + 1]]

\* np.repeat(matrix, repeats, axis=0): every row, repeats times in a row
np_repeat_rows(matrix, repeats) ==
    [a \in 1..(Len(matrix) * repeats) |-> matrix[((a - 1) \div repeats) + 1]]

\* np.repeat(matrix, repeats, axis=1): every column, repeats times in a row
np_repeat_columns(matrix, repeats) ==
    [a \in 1..Len(matrix) |->
        [b \in 1..(Len(matrix[a]) * repeats) |->
            matrix[a][((b - 1) \div repeats) + 1]]]

\* array.reshape(array.size, 1): the elements in row-major (C) order, one
\* per row
reshape_column(array) ==
    LET n == shape(array)[2]
    IN  [a \in 1..size(array) |->
            <<array.data[((a - 1) \div n) + 1][((a - 1) % n) + 1]>>]

\* the slice [step-1:stop:step]: the rightmost node of every word line
slice_rows_rightmost(length, stop, step) ==
    {a \in 0..(length - 1) : a < stop /\ a % step = step - 1}

\* the row indices (from 0) selected by the slice [:stop:step]
slice_rows(length, stop, step) ==
    {a \in 0..(length - 1) : a < stop /\ a % step = 0}

\* whether numpy can broadcast `rows` value rows onto `selected` rows
can_broadcast(rows, selected) == rows = selected \/ rows = 1

\* matrix[:stop:step, :] = values
assign_rows(matrix, stop, step, values) ==
    [a \in 1..Len(matrix) |->
        IF (a - 1) \in slice_rows(Len(matrix), stop, step)
        THEN values[IF Len(values) = 1 THEN 1 ELSE ((a - 1) \div step) + 1]
        ELSE matrix[a]]

\* np.divide(x, y) of two matrices with as many columns; a matrix of one
\* row is broadcast over the rows of the other
np_divide(x, y) ==
    LET rows == IF Len(x) = 1 THEN Len(y) ELSE Len(x)
    IN  [a \in 1..rows |->
            [b \in 1..Len(x[1]) |->
                Div(x[IF Len(x) = 1 THEN 1 ELSE a][b],
                    y[IF Len(y) = 1 THEN 1 ELSE a][b])]]

---------------------------------------------------------------------------
(* computing/fill.py                                                       *)

\* `0 in r_i` for the named tuple r_i = (word_line, bit_line)
zero_in(r_i) == IsZero(r_i.word_line) \/ IsZero(r_i.bit_line)

\* kcl.apply(g_matrix, resistances, r_i) fills the entries of the matrix it
\* is given and returns it, reading resistances; the model keeps the shape
\* of g only
kcl_apply(g_matrix_, resistances_, r_i) ==
    [ret |-> g_matrix_, resistances |-> resistances_]

\* fill.g testing the word line alone
g_word_line_only(resistances_, r_i) ==
    LET g_shape == IF IsZero(r_i.word_line)
                   THEN <<size(resistances_), size(resistances_)>>
                   ELSE <<2 * size(resistances_), 2 * size(resistances_)>>
        k == kcl_apply(g_shape, resistances_, r_i)
    IN  [ret |-> k.ret, resistances |-> k.resistances]

\* The outcome of fill.g: the shape of the matrix returned and the contents
\* of the array argument when the call ends.
g(resistances_, r_i) ==
    LET g_shape == IF zero_in(r_i)
                   THEN <<size(resistances_), size(resistances_)>>
                   ELSE <<2 * size(resistances_), 2 * size(resistances_)>>
        k == kcl_apply(g_shape, resistances_, r_i)
    IN  [ret |-> k.ret, resistances |-> k.resistances]

\* `if 0 not in r_i:` in place of `if r_i.word_line > 0:`
no_ideal_line(r_i) == ~zero_in(r_i)

\* fill.py 55: nodal analysis at the leftmost nodes of the word lines is
\* applied when the word lines have resistance
word_line_has_resistance(r_i) == IsPositive(r_i.word_line)

\* fill.py 50-63: the exception fill.i raises (or NoError) and the matrix it
\* returns
i_outcome(applied_voltages_, resistances_, r_i) ==
    LET p == shape(applied_voltages_)[2]
        i_shape == IF zero_in(r_i)
                   THEN <<size(resistances_), p>>
                   ELSE <<2 * size(resistances_), p>>
        zeros == np_zeros(i_shape[1], i_shape[2])
        selected == Cardinality(slice_rows(i_shape[1], size(resistances_),
                                           shape(resistances_)[2]))
        numerator == np_repeat_rows(applied_voltages_.data,
                                    shape(resistances_)[2])
        denominator == np_repeat_columns(reshape_column(resistances_), p)
        raised == IF word_line_has_resistance(r_i)
                  THEN ~can_broadcast(shape(applied_voltages_)[1], selected)
                  ELSE ~(can_broadcast(Len(numerator), Len(denominator))
                             \/ can_broadcast(Len(denominator),
                                              Len(numerator)))
    IN  [err |-> IF raised
                 THEN Error("ValueError", "i", "i_matrix",
                            "operands could not be broadcast together")
                 ELSE NoError,
         ret |-> IF raised THEN None
                 ELSE IF word_line_has_resistance(r_i)
                 THEN assign_rows(zeros, size(resistances_),
                                  shape(resistances_)[2],
                                  divide_by_scalar(applied_voltages_.data,
                                                   r_i.word_line))
                 ELSE np_divide(numerator, denominator)]

\* fill.i dividing applied_voltages in place (applied_voltages /= ...)
i_in_place(applied_voltages_, resistances_, r_i) ==
    LET o == i_outcome(applied_voltages_, resistances_, r_i)
    IN  [err |-> o.err,
         ret |-> o.ret,
         applied_voltages |->
             IF word_line_has_resistance(r_i)
             THEN [applied_voltages_ EXCEPT
                       !.data = divide_by_scalar(applied_voltages_.data,
                                                 r_i.word_line)]
             ELSE applied_voltages_,
         resistances |-> resistances_]

\* The outcome of fill.i: the exception raised (or NoError), the matrix
\* returned and the contents of the two array arguments when the call ends
\* (every result is built in a new array).
i(applied_voltages_, resistances_, r_i) ==
    LET o == i_outcome(applied_voltages_, resistances_, r_i)
    IN  [err |-> o.err,
         ret |-> o.ret,
         applied_voltages |-> applied_voltages_,
         resistances |-> resistances_]

---------------------------------------------------------------------------
(* The inputs a caller hands to compute().                                 *)

\* the sequences of length n over the set values
RECURSIVE Tuples(_, _)
Tuples(values, n) ==
    IF n = 0 THEN {<< >>}
    ELSE {Append(t, x) : t \in Tuples(values, n - 1), x \in values}

\* the m x n grids over the set values
Grids(values, m, n) == Tuples(Tuples(values, n), m)

\* the m x n grid of the distinct integers first, first + step, ...
Ramp(m, n, first, step) ==
    [a \in 1..m |-> [b \in 1..n |-> Num(first + step * ((a - 1) * n + (b - 1)))]]

\* device resistances a caller may pass: negative, zero, positive, infinite
ResistanceValues == {Num(-1), Num(0), Num(1), Inf}

\* interconnect resistances a caller may pass
InterconnectValues == {None, Num(-1), Num(0), Num(1)}

\* values of r_i a caller may pass
RIValues == {None, Num(0), Num(2)}

Shapes == {sh \in (1..MaxSize) \X (1..MaxSize) : sh[1] * sh[2] <= MaxSize}

\* arrays that are not 2-D, not numeric, or empty
OneDimensional == [ndim |-> 1, numeric |-> TRUE, data |-> <<Num(1)>>]

NonNumeric == [ndim |-> 2, numeric |-> FALSE, data |-> <<<<Num(1)>>>>]

Empty == [ndim |-> 2, numeric |-> TRUE, data |-> <<<< >>>>]

Malformed == {OneDimensional, NonNumeric, Empty}

ArgResistances ==
    Malformed \cup
    UNION {{Array2D(rows) : rows \in Grids(ResistanceValues, sh[1], sh[2])} :
               sh \in Shapes}

ArgAppliedVoltages ==
    Malformed \cup {Array2D(Ramp(sh[1], sh[2], 1, 2)) : sh \in Shapes}

\* what a call has produced: the exception and the assembled matrices
Outcome == [err |-> err, g_matrix |-> g_matrix, i_matrix |-> i_matrix]

---------------------------------------------------------------------------
(* compute(): one call, step by step.                                      *)

Init ==
    /\ arg_resistances \in ArgResistances
    /\ arg_applied_voltages \in ArgAppliedVoltages
    /\ arg_r_i \in RIValues
    /\ arg_r_i_word_line \in InterconnectValues
    /\ arg_r_i_bit_line \in InterconnectValues
    /\ r_i_word_line = None
    /\ r_i_bit_line = None
    /\ resistances = None
    /\ applied_voltages = None
    /\ pc = "start"
    /\ err = NoError
    /\ g_matrix = None
    /\ i_matrix = None
    /\ prev = None

\* compute.py 53-60: defaults of kwargs, then r_i overrides both lines
Start ==
    /\ pc = "start"
    /\ LET r == interconnect(arg_r_i, arg_r_i_word_line, arg_r_i_bit_line)
       IN  /\ r_i_word_line' = r.word_line
           /\ r_i_bit_line' = r.bit_line
    /\ pc' = "check"
    /\ UNCHANGED <<arg_resistances, arg_applied_voltages, arg_r_i,
                   arg_r_i_word_line, arg_r_i_bit_line, resistances,
                   applied_voltages, err, g_matrix, i_matrix, prev>>

\* compute.py 62-63: check.crossbar_requirements returns the two arrays or
\* raises, and the exception leaves compute()
Check ==
    /\ pc = "check"
    /\ LET c == crossbar_requirements(arg_resistances, arg_applied_voltages,
                                      r_i_word_line, r_i_bit_line)
       IN  /\ arg_resistances' = c.arg_resistances
           /\ arg_applied_voltages' = c.arg_applied_voltages
           /\ err' = c.err
           /\ resistances' = c.resistances
           /\ applied_voltages' = c.applied_voltages
           /\ pc' = IF c.err = NoError THEN "fill_g" ELSE "aborted"
    /\ UNCHANGED <<arg_r_i, arg_r_i_word_line, arg_r_i_bit_line,
                   r_i_word_line, r_i_bit_line, g_matrix, i_matrix, prev>>

\* the named tuple r_i that computing.extract.solution hands to fill
r_i_tuple == [word_line |-> r_i_word_line, bit_line |-> r_i_bit_line]

\* compute.py 67-69, computing.extract.solution: the matrix g is assembled
FillG ==
    /\ pc = "fill_g"
    /\ LET c == g(resistances, r_i_tuple)
       IN  /\ g_matrix' = c.ret
           /\ resistances' = c.resistances
    /\ pc' = "fill_i"
    /\ UNCHANGED <<arg_resistances, arg_applied_voltages, arg_r_i,
                   arg_r_i_word_line, arg_r_i_bit_line, r_i_word_line,
                   r_i_bit_line, applied_voltages, err, i_matrix, prev>>

\* compute.py 67-69, computing.extract.solution: the matrix i is assembled
FillI ==
    /\ pc = "fill_i"
    /\ LET c == i(applied_voltages, resistances, r_i_tuple)
       IN  /\ i_matrix' = c.ret
           /\ err' = c.err
           /\ applied_voltages' = c.applied_voltages
           /\ resistances' = c.resistances
           /\ pc' = IF c.err = NoError THEN "solve" ELSE "aborted"
    /\ UNCHANGED <<arg_resistances, arg_applied_voltages, arg_r_i,
                   arg_r_i_word_line, arg_r_i_bit_line, r_i_word_line,
                   r_i_bit_line, g_matrix, prev>>

\* compute.py 67-71: the system is solved and the solution returned
Return ==
    /\ pc = "solve"
    /\ pc' = "returned"
    /\ UNCHANGED <<arg_resistances, arg_applied_voltages, arg_r_i,
                   arg_r_i_word_line, arg_r_i_bit_line, r_i_word_line,
                   r_i_bit_line, resistances, applied_voltages, err,
                   g_matrix, i_matrix, prev>>

\* the caller calls compute() again with the objects it passed before
Again ==
    /\ pc \in {"returned", "aborted"}
    /\ prev' = Outcome
    /\ pc' = "start"
    /\ r_i_word_line' = None
    /\ r_i_bit_line' = None
    /\ resistances' = None
    /\ applied_voltages' = None
    /\ err' = NoError
    /\ g_matrix' = None
    /\ i_matrix' = None
    /\ UNCHANGED <<arg_resistances, arg_applied_voltages, arg_r_i,
                   arg_r_i_word_line, arg_r_i_bit_line>>

Next == Start \/ Check \/ FillG \/ FillI \/ Return \/ Again

Spec == Init /\ [][Next]_vars

---------------------------------------------------------------------------
(* fill.g and fill.i on validated inputs of every shape up to              *)
(* MaxM x MaxN devices and MaxP examples.                                  *)

\* interconnect resistances that pass the check
ValidInterconnect == {Num(0), Num(1), Num(2)}

\* the grid with its last element replaced: a device that is an open circuit
WithOpenDevice(grid) ==
    [grid EXCEPT ![Len(grid)][Len(grid[1])] = Inf]

InitFill ==
    /\ \E m \in 1..MaxM, n \in 1..MaxN, p \in 1..MaxP :
       \E first \in {1, 2}, step \in {1, 2}, open \in BOOLEAN :
           /\ arg_resistances =
                  Array2D(IF open THEN WithOpenDevice(Ramp(m, n, first, step))
                          ELSE Ramp(m, n, first, step))
           /\ arg_applied_voltages =
                  Array2D(Ramp(m, p, 3 * first, 2 * step + 1))
    /\ arg_r_i = None
    /\ arg_r_i_word_line \in ValidInterconnect
    /\ arg_r_i_bit_line \in ValidInterconnect
    /\ r_i_word_line = arg_r_i_word_line
    /\ r_i_bit_line = arg_r_i_bit_line
    /\ resistances = arg_resistances
    /\ applied_voltages = arg_applied_voltages
    /\ pc = "fill_g"
    /\ err = NoError
    /\ g_matrix = None
    /\ i_matrix = None
    /\ prev = None

NextFill == FillG \/ FillI \/ Return

SpecFill == InitFill /\ [][NextFill]_vars

---------------------------------------------------------------------------
(* Vocabulary of the properties.                                           *)

\* a 2-D, numeric, non-empty array
WellFormed(array) == array.ndim = 2 /\ array.numeric /\ size(array) > 0

HasZero(array) == WellFormed(array) /\ \E x \in Elements(array) : IsZero(x)

HasNegative(array) ==
    WellFormed(array) /\ \E x \in Elements(array) : IsNegative(x)

\* the interconnect resistances compute() is meant to use
Passed == interconnect(arg_r_i, arg_r_i_word_line, arg_r_i_bit_line)

\* both are numbers, neither is negative
NonNegativeInterconnect ==
    /\ Passed.word_line # None /\ ~IsNegative(Passed.word_line)
    /\ Passed.bit_line # None /\ ~IsNegative(Passed.bit_line)

BothZero == Passed.word_line = Num(0) /\ Passed.bit_line = Num(0)

\* the check has ended, one way or the other
Checked == pc \notin {"start", "check"}

\* the assembly has been started
Assembling == pc \in {"fill_i", "solve", "returned"} \/ g_matrix # None

\* fill.i has returned its matrix
Filled == pc \in {"solve", "returned"}

\* every check that precedes short_circuit passes on everything but the
\* zero resistance
EarlierChecksPass ==
    /\ WellFormed(arg_resistances) /\ ~HasNegative(arg_resistances)
    /\ WellFormed(arg_applied_voltages)
    /\ shape(arg_resistances)[1] = shape(arg_applied_voltages)[1]

M == shape(resistances)[1]

N == shape(resistances)[2]

P == shape(applied_voltages)[2]

FullMode == IsPositive(r_i_word_line) /\ IsPositive(r_i_bit_line)

---------------------------------------------------------------------------
(* C1 as stated: whenever resistances holds a zero and the interconnect    *)
(* resistances are non-negative, the call ends in the exception raised by  *)
(* check.short_circuit, before any assembly.  (Read in the claim's favour: *)
(* applied_voltages is a 2-D numeric array with as many rows.)             *)
C1_RaisedByShortCircuit ==
    (HasZero(arg_resistances) /\ NonNegativeInterconnect /\ Checked
        /\ WellFormed(arg_applied_voltages)
        /\ shape(arg_resistances)[1] = shape(arg_applied_voltages)[1])
        => (pc = "aborted" /\ err.raised_by = "short_circuit")

(* C1 amended: whenever resistances holds a zero and the interconnect      *)
(* resistances are non-negative, the call ends in an exception raised      *)
(* inside check.crossbar_requirements, which is the one of                 *)
(* check.short_circuit when all the earlier checks pass; the assembly is   *)
(* never started and nothing is returned.                                  *)
C1_ZeroNeverAssembled ==
    (HasZero(arg_resistances) /\ NonNegativeInterconnect)
        => /\ ~Assembling
           /\ i_matrix = None
           /\ Checked =>
                /\ pc = "aborted"
                /\ err.raised_by \in {"n_dimensional", "numeric_array",
                                      "non_empty", "non_negative_array",
                                      "match_shape", "short_circuit"}
                /\ EarlierChecksPass => err.raised_by = "short_circuit"

C1_Witness ==
    /\ pc = "aborted" /\ err.raised_by = "short_circuit"
    /\ HasZero(arg_resistances)
    /\ Passed.word_line = Num(1) /\ Passed.bit_line = Num(0)

(* C2 as stated: the exception of a zero resistance with r_word = r_bit =  *)
(* 0 and the one with other interconnect resistances are of different      *)
(* kinds (exception types).                                                *)
C2_DifferentKinds ==
    (pc = "aborted" /\ err.raised_by = "short_circuit")
        => short_circuit(arg_resistances, Num(0), Num(0)).type
               # short_circuit(arg_resistances, Num(1), Num(0)).type

(* C2 amended: both rejections of a zero resistance raise ValueError; they *)
(* differ in the message only: "causing short circuit" when r_word =       *)
(* r_bit = 0, "not currently supported" otherwise.                         *)
C2_SameKindTwoMessages ==
    (pc = "aborted" /\ err.raised_by = "short_circuit")
        => /\ err.type = "ValueError"
           /\ BothZero => err.text = "zero resistance causing short circuit"
           /\ ~BothZero
                => err.text = "zero resistance is not currently supported"

C2_Witness ==
    /\ pc = "aborted" /\ err.raised_by = "short_circuit"
    /\ Passed.word_line = Num(1) /\ Passed.bit_line = Num(0)
    /\ prev # None /\ prev.err = err

(* C3 as stated: a 2-D, numeric, non-empty resistances array with a        *)
(* negative or an infinite entry never passes the check.                   *)
C3_NegativeOrInfiniteRejected ==
    (WellFormed(arg_resistances) /\ Checked
        /\ (HasNegative(arg_resistances)
               \/ non_infinite_array(arg_resistances, "resistances")
                      # NoError))
        => (pc = "aborted" /\ ~Assembling)

(* C3 amended: a 2-D, numeric, non-empty resistances array with a negative *)
(* entry never passes the check; an infinite entry is no reason to reject: *)
(* check.non_infinite_array is not applied to resistances, and an array of *)
(* positive and +inf entries passes when the other inputs are valid.       *)
C3_NegativeRejected ==
    /\ (HasNegative(arg_resistances) /\ Checked)
           => (pc = "aborted" /\ err # NoError /\ ~Assembling)
    /\ err.raised_by # "non_infinite_array"
    /\ (Checked /\ EarlierChecksPass /\ NonNegativeInterconnect
            /\ ~HasZero(arg_resistances))
           => pc # "aborted"

C3_Witness ==
    /\ pc = "aborted" /\ err.raised_by = "non_negative_array"
    /\ HasNegative(arg_resistances) /\ HasZero(arg_resistances)

(* C4: when the check returns, the two arrays it returns have the same     *)
(* number of rows; two otherwise valid arrays with different numbers of    *)
(* rows make it raise the exception of check.match_shape.                  *)
C4_RowsMatch ==
    /\ (Checked /\ pc # "aborted")
           => shape(resistances)[1] = shape(applied_voltages)[1]
    /\ (Checked /\ WellFormed(arg_resistances)
            /\ ~HasNegative(arg_resistances)
            /\ WellFormed(arg_applied_voltages)
            /\ shape(arg_resistances)[1] # shape(arg_applied_voltages)[1])
           => /\ pc = "aborted"
              /\ err.raised_by = "match_shape"
              /\ err.type = "ValueError"
              /\ resistances = None /\ applied_voltages = None

C4_Witness ==
    /\ pc = "aborted" /\ err.raised_by = "match_shape"
    /\ shape(arg_resistances)[1] = 2 /\ shape(arg_applied_voltages)[1] = 1

(* C8: past the first step of compute(), the interconnect resistances it   *)
(* validates and solves with are both r_i when r_i is not None (r_i = 0    *)
(* included), and the r_i_word_line and r_i_bit_line passed otherwise.     *)
C8_InterconnectUsed ==
    (pc # "start")
        => /\ arg_r_i # None
                => (r_i_word_line = arg_r_i /\ r_i_bit_line = arg_r_i)
           /\ arg_r_i = None
                => /\ r_i_word_line = arg_r_i_word_line
                   /\ r_i_bit_line = arg_r_i_bit_line
           /\ (pc = "aborted" /\ arg_r_i # None)
                => err = crossbar_requirements(arg_resistances,
                          arg_applied_voltages, arg_r_i, arg_r_i).err
           /\ (pc = "returned" /\ arg_r_i # None)
                => g_matrix = g(resistances, [word_line |-> arg_r_i,
                                              bit_line |-> arg_r_i]).ret

C8_Witness ==
    /\ pc = "returned" /\ arg_r_i = Num(0)
    /\ arg_r_i_word_line = Num(1) /\ arg_r_i_bit_line = None

---------------------------------------------------------------------------
(* Properties of the matrices, for every shape and every pair of           *)
(* non-negative interconnect resistances.                                  *)

(* C5: the matrix of fill.g is square, of side 2*m*n when both             *)
(* interconnect resistances are positive and m*n when one is zero, and     *)
(* the matrix of fill.i has as many rows and p columns.                    *)
C5_Shapes ==
    LET side == IF FullMode THEN 2 * M * N ELSE M * N
    IN  /\ (pc = "fill_i" \/ Filled) => g_matrix = <<side, side>>
        /\ Filled => /\ Len(i_matrix) = side
                     /\ \A a \in 1..side : Len(i_matrix[a]) = P

C5_Witness ==
    /\ Filled /\ M = 2 /\ N = 2 /\ P = 2
    /\ IsPositive(r_i_word_line) /\ IsZero(r_i_bit_line)
    /\ g_matrix = <<4, 4>> /\ Len(i_matrix) = 4

(* C6: in full mode the entry of row w(i,0) = i*n and column k of the      *)
(* matrix of fill.i is applied_voltages[i,k] / r_word and every other      *)
(* entry of the 2*m*n x p matrix is zero.                                  *)
C6_FullModeSources ==
    (Filled /\ FullMode)
        => /\ Len(i_matrix) = 2 * M * N
           /\ \A a \in 0..(2 * M * N - 1), k \in 1..P :
                i_matrix[a + 1][k] =
                    IF a < M * N /\ a % N = 0
                    THEN Div(applied_voltages.data[(a \div N) + 1][k],
                             r_i_word_line)
                    ELSE Num(0)

C6_Witness ==
    /\ Filled /\ FullMode /\ M = 2 /\ N = 2 /\ P = 2
    /\ r_i_word_line = Num(2)
    /\ i_matrix[3][2] = Div(applied_voltages.data[2][2], Num(2))
    /\ i_matrix[3][2] # Num(0) /\ i_matrix[2][2] = Num(0)

(* C7: with an ideal word line (r_word = 0, whatever r_bit) the entry of   *)
(* row v(i,j) = i*n + j and column k of the matrix of fill.i is            *)
(* applied_voltages[i,k] / R(i,j).                                         *)
C7_IdealWordLineSources ==
    (Filled /\ IsZero(r_i_word_line))
        => /\ Len(i_matrix) = M * N
           /\ \A a \in 1..M, b \in 1..N, k \in 1..P :
                i_matrix[(a - 1) * N + b][k] =
                    Div(applied_voltages.data[a][k], resistances.data[a][b])

C7_Witness ==
    /\ Filled /\ IsZero(r_i_word_line) /\ IsPositive(r_i_bit_line)
    /\ M = 2 /\ N = 2 /\ P = 2
    /\ i_matrix[3][1] = Div(applied_voltages.data[2][1],
                            resistances.data[2][1])
    /\ i_matrix[3][1] # Div(applied_voltages.data[1][1],
                            resistances.data[2][1])
    /\ i_matrix[3][1] # Div(applied_voltages.data[2][1],
                            resistances.data[1][2])

(* C10: with r_word > 0 and r_bit = 0 the matrix of fill.i is m*n x p, its *)
(* entry of row i*n and column k is applied_voltages[i,k] / r_word and     *)
(* every other entry is zero: no device resistance enters it.              *)
C10_ResistiveWordIdealBit ==
    (Filled /\ IsPositive(r_i_word_line) /\ IsZero(r_i_bit_line))
        => /\ Len(i_matrix) = M * N
           /\ \A a \in 0..(M * N - 1), k \in 1..P :
                i_matrix[a + 1][k] =
                    IF a % N = 0
                    THEN Div(applied_voltages.data[(a \div N) + 1][k],
                             r_i_word_line)
                    ELSE Num(0)

C10_Witness ==
    /\ Filled /\ IsPositive(r_i_word_line) /\ IsZero(r_i_bit_line)
    /\ M = 2 /\ N = 2 /\ P = 2
    /\ Len(i_matrix) = 4
    /\ i_matrix[3][1] = Div(applied_voltages.data[2][1], r_i_word_line)
    /\ i_matrix[4][1] = Num(0)

====
